---- MODULE Spec2Model ----
(***************************************************************************)
(* roost (src/src/main.rs): an interactive session collects eight fields   *)
(* with the generic prompt loop `field`, then `ErrorData::print` renders   *)
(* them as a compiler-style diagnostic.                                    *)
(*                                                                         *)
(* Text is a sequence of characters; a character is a one-element token    *)
(* (a TLA+ string).  The token "U+E9" stands for a character whose UTF-8   *)
(* encoding is two bytes long; every other token is one byte long.         *)
(* Rust's String::len and the range index line[a..b] count BYTES, while    *)
(* chars() walks characters: the model keeps the two apart.                *)
(***************************************************************************)
EXTENDS Integers, Sequences, FiniteSets, TLC

VARIABLES pc, build, summary, line, spos, epos, message, lineno, path,
          errnum, last, tries, ruler, out, panic, collected, calls, output,
          printed

vars == <<pc, build, summary, line, spos, epos, message, lineno, path,
          errnum, last, tries, ruler, out, panic, collected, calls, output,
          printed>>

----------------------------------------------------------------------------
(* Program constants                                                       *)

DEFAULT_LINENO == 1
DEFAULT_PATH == <<"<", "s", "t", "d", "i", "n", ">">>
DEFAULT_ERRNUM == 69

\* usize::MIN and usize::MAX.  The word is scaled to the 31 bits the
\* checker's integers can hold; every sum and difference below is computed
\* without leaving 0 .. USIZE_MAX, so the wrap at the top of the word is the
\* wrap of the real word.
USIZE_MIN == 0
USIZE_MAX == 2147483647

\* How many rejected attempts on one field a run follows (the loop of `field`
\* itself has no bound).
MaxTries == 2

----------------------------------------------------------------------------
(* Strings                                                                 *)

NL == "\n"

\* UTF-8 length of one character.
ByteLen(c) == IF c = "U+E9" THEN 2 ELSE 1

\* String::len(): the length in bytes.
RECURSIVE len(_)
len(s) == IF s = <<>> THEN 0 ELSE ByteLen(Head(s)) + len(Tail(s))

\* chars().count(): the length in characters.
CharCount(s) == Len(s)

\* Byte offset at which character number i (1-based) of s starts.
RECURSIVE ByteOffset(_, _)
ByteOffset(s, i) == IF i <= 1 THEN 0 ELSE ByteLen(s[i - 1]) + ByteOffset(s, i - 1)

\* str::is_char_boundary(b)
is_char_boundary(s, b) ==
    \/ b = len(s)
    \/ \E i \in 1..Len(s) : ByteOffset(s, i) = b

\* Whether the range index s[a..b] is served or panics
\* ("byte index is out of bounds" / "is not a char boundary" /
\*  "begin <= end").
SliceOk(s, a, b) ==
    /\ a <= b
    /\ b <= len(s)
    /\ is_char_boundary(s, a)
    /\ is_char_boundary(s, b)

\* s[a..b] for a served range: the characters whose bytes lie in [a, b).
Slice(s, a, b) ==
    LET idx == {i \in 1..Len(s) : ByteOffset(s, i) >= a /\ ByteOffset(s, i) < b}
        lo == IF idx = {} THEN 1 ELSE CHOOSE i \in idx : \A j \in idx : i <= j
    IN SubSeq(s, lo, lo + Cardinality(idx) - 1)

\* str::repeat(n) of a one-character string.
repeat(c, n) == [i \in 1..n |-> c]

----------------------------------------------------------------------------
(* Numbers and their decimal text                                          *)

Digits == <<"0", "1", "2", "3", "4", "5", "6", "7", "8", "9">>

IsDigit(c) == \E d \in 1..10 : Digits[d] = c

DigitValue(c) == (CHOOSE d \in 1..10 : Digits[d] = c) - 1

\* usize::to_string()
RECURSIVE to_string(_)
to_string(n) ==
    IF n < 10 THEN <<Digits[n + 1]>>
    ELSE Append(to_string(n \div 10), Digits[(n % 10) + 1])

\* The digit loop of str::parse::<usize>(): acc is the value so far; the
\* result is -1 on an invalid digit or on overflow of the word.
RECURSIVE parse_digits(_, _)
parse_digits(s, acc) ==
    IF s = <<>> THEN acc
    ELSE IF ~IsDigit(Head(s)) THEN -1
    ELSE LET d == DigitValue(Head(s)) IN
         IF acc > (USIZE_MAX - d) \div 10 THEN -1
         ELSE parse_digits(Tail(s), acc * 10 + d)

\* str::parse::<usize>(): Ok(v) as v, Err(_) as -1.  An empty text, a lone
\* sign, a '-' (the type is unsigned), blanks and any other non-digit are
\* errors; one leading '+' is allowed.
parse_usize(raw) ==
    IF raw = <<>> THEN -1
    ELSE IF Len(raw) = 1 /\ Head(raw) \in {"+", "-"} THEN -1
    ELSE IF Head(raw) = "+" THEN parse_digits(Tail(raw), 0)
    ELSE parse_digits(raw, 0)

----------------------------------------------------------------------------
(* Machine arithmetic on usize                                             *)

\* a + b and a - b leave the word?
add_overflows(a, b) == a > USIZE_MAX - b
sub_overflows(a, b) == a < b

\* The results a build without overflow checks produces.
wrapping_add(a, b) == IF add_overflows(a, b) THEN a - (USIZE_MAX - b) - 1 ELSE a + b
wrapping_sub(a, b) == IF sub_overflows(a, b) THEN USIZE_MAX - (b - a) + 1 ELSE a - b

\* The two outcomes of an overflowing + or -: a build with overflow checks
\* (the dev profile) panics, one without (the release profile) wraps.
Builds == {"debug", "release"}

----------------------------------------------------------------------------
(* Styling helpers: an escape sequence is one token of width 0             *)

Escapes == {"ESC[1m", "ESC[0m", "ESC[31m", "ESC[33m", "ESC[34m", "ESC[39m"}

bold(string) == <<"ESC[1m">> \o string \o <<"ESC[0m">>

color(string, code) ==
    <<CASE code = 1 -> "ESC[31m" [] code = 3 -> "ESC[33m" [] code = 4 -> "ESC[34m">>
    \o string \o <<"ESC[39m">>

\* What a terminal shows of a text: its tokens that are not escapes.
Visible(text) == SelectSeq(text, LAMBDA t : t \notin Escapes)

----------------------------------------------------------------------------
(* Validators                                                              *)

\* A field type is the validator handed to `field`: fn string, or a closure
\* of int_factory with its two captured bounds.
StringType == [kind |-> "string"]
IntType(min_value, max_value) ==
    [kind |-> "int", min_value |-> min_value, max_value |-> max_value]

\* any::type_name::<F>()
type_name(fty) == IF fty.kind = "string" THEN "roost::string" ELSE "dyn Fn"

\* A validator of strings that accepts no text.
string_never(raw) == [ok |-> FALSE, details |-> "invalid value"]

\* fn string: accepts every text, the empty one included.
string(raw) == [ok |-> TRUE, value |-> raw]

\* int_factory with an upper bound that is not inclusive.
int_factory_exclusive_max(min_value, max_value, raw_value) ==
    LET value == parse_usize(raw_value) IN
    IF value = -1 THEN [ok |-> FALSE, details |-> "invalid value"]
    ELSE IF value < min_value THEN [ok |-> FALSE, details |-> "value is too smol"]
    ELSE IF value >= max_value THEN [ok |-> FALSE, details |-> "value is too big"]
    ELSE [ok |-> TRUE, value |-> value]

\* The closure int_factory(min_value, max_value) applied to raw_value.
int_factory(min_value, max_value, raw_value) ==
    LET value == parse_usize(raw_value) IN
    IF value = -1 THEN [ok |-> FALSE, details |-> "invalid value"]
    ELSE IF value < min_value THEN [ok |-> FALSE, details |-> "value is too smol"]
    ELSE IF value > max_value THEN [ok |-> FALSE, details |-> "value is too big"]
    ELSE [ok |-> TRUE, value |-> value]

\* field_type(result.clone())
field_type(fty, raw) ==
    IF fty.kind = "string" THEN string(raw)
    ELSE int_factory(fty.min_value, fty.max_value, raw)

None == [some |-> FALSE]
Some(v) == [some |-> TRUE, value |-> v]

----------------------------------------------------------------------------
(* field: one pass of its loop on one line read from standard input        *)

\* The two messages of `field` on standard error.
EmptyError(name) ==
    [style |-> "bold red", text |-> "ERR: field '{}' cannot be empty", field |-> name]
InvalidError(result, fty) ==
    [style |-> "bold yellow", text |-> "ERR: '{}' is not a valid {}",
     raw |-> result, type |-> type_name(fty)]

\* strip_suffix("\n"): the text before the final newline.
has_newline(input) == input # <<>> /\ input[Len(input)] = NL
strip_suffix(input) == SubSeq(input, 1, Len(input) - 1)

\* An emptiness test on the trimmed text: blanks alone count as empty.
is_empty_trimmed(result) == \A i \in 1..Len(result) : result[i] = " "

\* result.is_empty(): no character is left once the newline is gone.
is_empty(result) == result = <<>>

\* A loop without the early return: an empty line always reaches the
\* validator.
returns_default_never(result, default) == FALSE

\* if result.is_empty() { if default.is_some() { return default.unwrap(); } .. }
returns_default(result, default) == is_empty(result) /\ default.some

\* The text a default is shown with (ToString): a number by its decimal
\* digits, a string as it is.
default_text(fty, default) ==
    IF fty.kind = "int" THEN to_string(default.value) ELSE default.value

\* make_prompt: the field's name (kept as one token), the default in blue
\* when there is one, a colon and a blank, all in bold.
make_prompt(name, fty, default) ==
    bold(<<name>>
         \o (IF default.some
             THEN color(<<" ", "(", "d", "e", "f", "a", "u", "l", "t", "=">>
                        \o default_text(fty, default) \o <<")">>, 4)
             ELSE <<>>)
         \o <<":", " ">>)

\* A loop that hands the default to the validator's range check before it
\* returns it.
field_checks_default(name, fty, default, input) ==
    LET result == strip_suffix(input)
        base == [name |-> name, fty |-> fty, default |-> default, input |-> input,
                 prompt |-> make_prompt(name, fty, default),
                 result |-> result, returned |-> FALSE, validated |-> FALSE,
                 stderr |-> <<>>, panicked |-> FALSE]
        checked == field_type(fty, default_text(fty, default))
    IN
    IF ~has_newline(input)
    THEN [base EXCEPT !.panicked = TRUE, !.result = <<>>]
    ELSE IF returns_default(result, default)
    THEN IF checked.ok
         THEN [returned |-> TRUE, validated |-> TRUE, value |-> default.value] @@ base
         ELSE [validated |-> TRUE, details |-> checked.details,
               stderr |-> <<InvalidError(result, fty)>>] @@ base
    ELSE
        LET empty == IF is_empty(result) THEN <<EmptyError(name)>> ELSE <<>>
            v == field_type(fty, result)
        IN
        IF v.ok
        THEN [returned |-> TRUE, validated |-> TRUE, value |-> v.value,
              stderr |-> empty] @@ base
        ELSE [validated |-> TRUE, details |-> v.details,
              stderr |-> empty \o <<InvalidError(result, fty)>>] @@ base

\* A loop that drops the report of a rejected line.
field_silent(name, fty, default, input) ==
    LET result == strip_suffix(input)
        base == [name |-> name, fty |-> fty, default |-> default, input |-> input,
                 prompt |-> make_prompt(name, fty, default),
                 result |-> result, returned |-> FALSE, validated |-> FALSE,
                 stderr |-> <<>>, panicked |-> FALSE]
    IN
    IF ~has_newline(input)
    THEN [base EXCEPT !.panicked = TRUE, !.result = <<>>]
    ELSE IF returns_default(result, default)
    THEN [returned |-> TRUE, value |-> default.value] @@ base
    ELSE
        LET empty == IF is_empty(result) THEN <<EmptyError(name)>> ELSE <<>>
            v == field_type(fty, result)
        IN
        IF v.ok
        THEN [returned |-> TRUE, validated |-> TRUE, value |-> v.value,
              stderr |-> empty] @@ base
        ELSE [validated |-> TRUE, details |-> v.details, stderr |-> empty] @@ base

\* One iteration of the loop: `input` is what read_line delivered (the typed
\* text and its newline, or nothing at end of input).  The record tells
\* whether the call returned and with what, whether the validator was called
\* and on what, what went to standard error, and whether the process aborted.
\* An empty result without a default is reported and then still handed to
\* the validator: the `if` has no `continue`.
field(name, fty, default, input) ==
    LET result == strip_suffix(input)
        base == [name |-> name, fty |-> fty, default |-> default, input |-> input,
                 prompt |-> make_prompt(name, fty, default),
                 result |-> result, returned |-> FALSE, validated |-> FALSE,
                 stderr |-> <<>>, panicked |-> FALSE]
    IN
    IF ~has_newline(input)
    THEN [base EXCEPT !.panicked = TRUE, !.result = <<>>]
    ELSE IF returns_default(result, default)
    THEN [returned |-> TRUE, value |-> default.value] @@ base
    ELSE
        LET empty == IF is_empty(result) THEN <<EmptyError(name)>> ELSE <<>>
            v == field_type(fty, result)
        IN
        IF v.ok
        THEN [returned |-> TRUE, validated |-> TRUE, value |-> v.value,
              stderr |-> empty] @@ base
        ELSE [validated |-> TRUE, details |-> v.details,
              stderr |-> empty \o <<InvalidError(result, fty)>>] @@ base

----------------------------------------------------------------------------
(* ErrorData                                                               *)

\* format!("{:0fill$}", n): the decimal text of n, with zeros put in front
\* while it is shorter than fill.
zero_pad(text, fill) ==
    IF Len(text) >= fill THEN text ELSE repeat("0", fill - Len(text)) \o text

\* An identifier of exactly four digits: the low four digits of the number.
get_errid_four_digits(n) == <<"E">> \o zero_pad(to_string(n % 10000), 4)

\* ErrorData::get_errid
get_errid(n) == <<"E">> \o zero_pad(to_string(n), 4)

\* The diagnostic record `err` built at the end of main.
ErrorData ==
    [summary |-> summary, line |-> line, message |-> message, spos |-> spos,
     epos |-> epos, lineno |-> lineno, path |-> path, errnum |-> errnum]

\* The places where ErrorData::print aborts: the column spos + 1 in a build
\* with overflow checks, the three range indexes of the line, and the caret
\* count epos - spos (overflow check, or a repeat count no allocation holds).
print_panics(e, b) ==
    \/ b = "debug" /\ add_overflows(e.spos, 1)
    \/ ~SliceOk(e.line, 0, e.spos)
    \/ ~SliceOk(e.line, e.spos, e.epos)
    \/ ~SliceOk(e.line, e.epos, len(e.line))
    \/ sub_overflows(e.epos, e.spos)

\* The rows of the text ErrorData::print builds.
lineno_len(e) == Len(to_string(e.lineno))

\* A blank gutter as wide as the number alone.
empty_line_narrow(e) == color(repeat(" ", lineno_len(e)) \o <<"|", " ">>, 4)

empty_line(e) == color(repeat(" ", lineno_len(e) + 1) \o <<"|", " ">>, 4)

header_row(e) ==
    bold(color(<<"e", "r", "r", "o", "r", "[">> \o get_errid(e.errnum) \o <<"]">>, 1))
    \o bold(<<":", " ">> \o e.summary \o <<NL>>)

\* A location row that gives the column as the 0-based offset.
location_row_zero_based(e) ==
    repeat(" ", lineno_len(e)) \o color(<<"-", "-", ">", " ">>, 4) \o e.path \o <<":">>
    \o to_string(e.lineno) \o <<":">> \o to_string(e.spos) \o <<NL>>

location_row(e) ==
    repeat(" ", lineno_len(e)) \o color(<<"-", "-", ">", " ">>, 4) \o e.path \o <<":">>
    \o to_string(e.lineno) \o <<":">> \o to_string(wrapping_add(e.spos, 1)) \o <<NL>>

source_row(e) ==
    color(to_string(e.lineno) \o <<" ", "|", " ">>, 4)
    \o Slice(e.line, 0, e.spos)
    \o bold(color(Slice(e.line, e.spos, e.epos), 1))
    \o Slice(e.line, e.epos, len(e.line))
    \o <<NL>>

caret_row(e) ==
    empty_line(e) \o repeat(" ", e.spos)
    \o bold(color(repeat("^", e.epos - e.spos), 1))
    \o <<" ">> \o bold(color(e.message, 1)) \o <<NL>>

\* ErrorData::print: the text handed to writeln!, and the newline it adds.
print(e) ==
    header_row(e) \o location_row(e) \o empty_line(e) \o <<NL>>
    \o source_row(e) \o caret_row(e) \o empty_line(e) \o <<NL>>

----------------------------------------------------------------------------
(* print_line_helper: the column ruler                                     *)

\* format!("{:^width$}"): text centred in width columns, the odd blank on
\* the right; a text at least that wide is left as it is.
center(text, width) ==
    IF Len(text) >= width THEN text
    ELSE LET pad == width - Len(text) IN
         repeat(" ", pad \div 2) \o text \o repeat(" ", pad - pad \div 2)

RECURSIVE concat(_)
concat(blocks) == IF blocks = <<>> THEN <<>> ELSE Head(blocks) \o concat(Tail(blocks))

\* The four rows print_line_helper prints: a rule, the indexes 0 .. len - 1,
\* the characters, a rule.
print_line_helper(l) ==
    LET last_char_no_len == Len(to_string(len(l))) + 1
        helper_len == last_char_no_len * len(l)
    IN <<repeat("-", helper_len),
         concat([i \in 1..len(l) |-> center(to_string(i - 1), last_char_no_len)]),
         concat([i \in 1..Len(l) |-> center(<<l[i]>>, last_char_no_len)]),
         repeat("-", helper_len)>>

----------------------------------------------------------------------------
(* What the operator types                                                 *)

\* A line as read_line delivers it, and the end of input (nothing read).
Typed(text) == Append(text, NL)
EOF == <<>>
Reads(texts) == {Typed(t) : t \in texts} \cup {EOF}

Empty == <<>>
Blank == <<" ">>

\* The texts of the worked example of the specification (section 8).
ExampleSummary ==
    <<"t", "y", "p", "e", " ", "m", "i", "s", "m", "a", "t", "c", "h">>
ExampleLine ==
    <<"l", "e", "t", " ", "x", " ", "=", " ", "1", " ", "+", " ", "\"",
      "a", "\"", ";">>
ExampleMessage ==
    <<"e", "x", "p", "e", "c", "t", "e", "d", " ", "i", "n", "t", "e", "g",
      "e", "r", ",", " ", "f", "o", "u", "n", "d", " ", "s", "t", "r", "i",
      "n", "g">>
ExamplePath ==
    <<"m", "a", "i", "n", ".", "r", "s">>

SummaryTexts == {Empty, ExampleSummary}
LineTexts == {Empty, <<"a", "b", "c">>, <<"a", "U+E9">>, <<"U+E9", "b">>, ExampleLine}
SposTexts == {Empty, Blank, <<"0">>, <<"1">>, <<"2">>, <<"3">>, <<"4">>,
              <<"8">>, <<"x">>, <<"+", "1">>, <<"-", "1">>}
EposTexts == {Empty, Blank, <<"0">>, <<"1">>, <<"2">>, <<"3">>, <<"1", "5">>,
              <<"1", "6">>, <<"x">>}
MessageTexts == {Empty, ExampleMessage}
LinenoTexts == {Empty, <<"3">>, <<"x">>,
                <<"2", "1", "4", "7", "4", "8", "3", "6", "4", "7">>,
                <<"2", "1", "4", "7", "4", "8", "3", "6", "4", "8">>}
PathTexts == {Empty, Blank, ExamplePath}
ErrnumTexts == {Empty, Blank, <<"7">>, <<"1", "2", "3", "4", "5", "6">>}

----------------------------------------------------------------------------
(* main                                                                    *)

NoAttempt ==
    [name |-> "", fty |-> StringType, default |-> None, input |-> EOF,
     prompt |-> <<>>, result |-> <<>>, returned |-> FALSE, validated |-> FALSE, stderr |-> <<>>,
     panicked |-> FALSE, attempt |-> 0]

\* Args::get_output: the sink is the file named by --output or, without the
\* option, standard output.
Outputs == {"file", "stdout"}

\* `out` is the text written through the handle `output`; `printed` tells
\* whether print!/println! have put text on standard output.
Init ==
    /\ pc = "summary"
    /\ build \in Builds
    /\ output \in Outputs
    /\ printed = FALSE
    /\ summary = <<>> /\ line = <<>> /\ message = <<>> /\ path = <<>>
    /\ spos = 0 /\ epos = 0 /\ lineno = 0 /\ errnum = 0
    /\ last = NoAttempt
    /\ tries = 0
    /\ ruler = <<>>
    /\ out = <<>>
    /\ panic = ""
    /\ collected = <<>>
    /\ calls = [print_line_helper |-> 0, print |-> 0, writeln |-> 0]

\* Where main goes after one pass r of the loop of `field`: to the abort of
\* the process, to `next` when the call returned (or to the abort `after`
\* that the code following the call raises), or round the loop again.
\* `last` keeps the pass and its number within the call; `collected` lists
\* the calls of `field` that have returned, in the order they did.
Control(r, next, after) ==
    /\ printed' = TRUE
    /\ output' = output
    /\ collected' = IF ~r.panicked /\ r.returned THEN Append(collected, r.name)
                    ELSE collected
    /\ IF r.panicked
       THEN pc' = "panicked" /\ panic' = "no newline at end of input" /\ tries' = tries
       ELSE IF r.returned
       THEN /\ tries' = 0
            /\ IF after = "" THEN pc' = next /\ panic' = panic
               ELSE pc' = "panicked" /\ panic' = after
       ELSE tries < MaxTries /\ tries' = tries + 1 /\ pc' = pc /\ panic' = panic
    /\ last' = [attempt |-> tries + 1] @@ r

\* let summary = field("summary", &mut string, None);
Summary ==
    /\ pc = "summary"
    /\ \E input \in Reads(SummaryTexts) :
        LET r == field("summary", StringType, None, input) IN
        /\ Control(r, "line", "")
        /\ summary' = IF r.returned THEN r.value ELSE summary
    /\ UNCHANGED <<build, line, spos, epos, message, lineno, path, errnum, ruler, out, calls>>

\* A main that goes from the line straight to the start position, without
\* the ruler.
Line_without_ruler ==
    /\ pc = "line"
    /\ \E input \in Reads(LineTexts) :
        LET r == field("line", StringType, None, input) IN
        /\ Control(r, "spos", "")
        /\ line' = IF r.returned THEN r.value ELSE line
    /\ UNCHANGED <<build, summary, spos, epos, message, lineno, path, errnum, out,
                   ruler, calls>>

\* let line = field("line", &mut string, None); print_line_helper(line.clone());
Line ==
    /\ pc = "line"
    /\ \E input \in Reads(LineTexts) :
        LET r == field("line", StringType, None, input) IN
        /\ Control(r, "spos", "")
        /\ line' = IF r.returned THEN r.value ELSE line
        /\ ruler' = IF r.returned THEN print_line_helper(r.value) ELSE ruler
        /\ calls' = IF r.returned
                    THEN [calls EXCEPT !.print_line_helper = @ + 1] ELSE calls
    /\ UNCHANGED <<build, summary, spos, epos, message, lineno, path, errnum, out>>

\* let spos = field("error start position", int_factory(0, line.len()), Some(0));
\* and the arguments of the next call, spos + 1 and line.len() - 1, which a
\* build with overflow checks evaluates or dies on.
Spos ==
    /\ pc = "spos"
    /\ \E input \in Reads(SposTexts) :
        LET r == field("error start position", IntType(0, len(line)), Some(0), input)
            after == IF r.returned /\ build = "debug"
                        /\ (add_overflows(r.value, 1) \/ sub_overflows(len(line), 1))
                     THEN "attempt to subtract with overflow" ELSE ""
        IN
        /\ Control(r, "epos", after)
        /\ spos' = IF r.returned THEN r.value ELSE spos
    /\ UNCHANGED <<build, summary, line, epos, message, lineno, path, errnum, ruler, out, calls>>

\* let epos = field("error end position",
\*                  int_factory(spos + 1, line.len() - 1), Some(line.len() - 1)) + 1;
\* line.len() - 1 is the one value max, computed once for both arguments.
Epos ==
    /\ pc = "epos"
    /\ \E input \in Reads(EposTexts), max \in {wrapping_sub(len(line), 1)} :
        LET r == field("error end position", IntType(wrapping_add(spos, 1), max),
                       Some(max), input)
            after == IF r.returned /\ build = "debug" /\ add_overflows(r.value, 1)
                     THEN "attempt to add with overflow" ELSE ""
        IN
        /\ Control(r, "message", after)
        /\ epos' = IF r.returned THEN wrapping_add(r.value, 1) ELSE epos
    /\ UNCHANGED <<build, summary, line, spos, message, lineno, path, errnum, ruler, out, calls>>

\* let message = field("message", &mut string, None);
Message ==
    /\ pc = "message"
    /\ \E input \in Reads(MessageTexts) :
        LET r == field("message", StringType, None, input) IN
        /\ Control(r, "lineno", "")
        /\ message' = IF r.returned THEN r.value ELSE message
    /\ UNCHANGED <<build, summary, line, spos, epos, lineno, path, errnum, ruler, out, calls>>

\* let lineno = field("line number", int_factory(usize::MIN, usize::MAX),
\*                    Some(DEFAULT_LINENO));
Lineno ==
    /\ pc = "lineno"
    /\ \E input \in Reads(LinenoTexts) :
        LET r == field("line number", IntType(USIZE_MIN, USIZE_MAX),
                       Some(DEFAULT_LINENO), input) IN
        /\ Control(r, "path", "")
        /\ lineno' = IF r.returned THEN r.value ELSE lineno
    /\ UNCHANGED <<build, summary, line, spos, epos, message, path, errnum, ruler, out, calls>>

\* let path = field("path", &mut string, Some(DEFAULT_PATH.to_owned()));
Path ==
    /\ pc = "path"
    /\ \E input \in Reads(PathTexts) :
        LET r == field("path", StringType, Some(DEFAULT_PATH), input) IN
        /\ Control(r, "errnum", "")
        /\ path' = IF r.returned THEN r.value ELSE path
    /\ UNCHANGED <<build, summary, line, spos, epos, message, lineno, errnum, ruler, out, calls>>

\* let errnum = field("error number", int_factory(usize::MIN, usize::MAX),
\*                    Some(DEFAULT_ERRNUM)); then the record is built.
Errnum ==
    /\ pc = "errnum"
    /\ \E input \in Reads(ErrnumTexts) :
        LET r == field("error number", IntType(USIZE_MIN, USIZE_MAX),
                       Some(DEFAULT_ERRNUM), input) IN
        /\ Control(r, "print", "")
        /\ errnum' = IF r.returned THEN r.value ELSE errnum
    /\ UNCHANGED <<build, summary, line, spos, epos, message, lineno, path, ruler, out, calls>>

\* A renderer that writes each row to the sink as soon as it is built: the
\* header and the location are out before the line is sliced.
Render_row_by_row ==
    /\ pc = "print"
    /\ IF print_panics(ErrorData, build)
       THEN /\ pc' = "panicked" /\ panic' = "print"
            /\ out' = header_row(ErrorData) \o location_row(ErrorData)
            /\ calls' = [calls EXCEPT !.print = @ + 1, !.writeln = @ + 2]
       ELSE /\ pc' = "done" /\ panic' = panic /\ out' = print(ErrorData)
            /\ calls' = [calls EXCEPT !.print = @ + 1, !.writeln = @ + 6]
    /\ UNCHANGED <<build, summary, line, spos, epos, message, lineno, path, errnum,
                   last, tries, ruler, collected, output, printed>>

\* err.print(&mut output): the text is built in memory, where a range index
\* may abort the process, and then goes to the sink in the one writeln! at
\* the end of print.
Render ==
    /\ pc = "print"
    /\ IF print_panics(ErrorData, build)
       THEN /\ pc' = "panicked" /\ panic' = "print" /\ out' = out
            /\ calls' = [calls EXCEPT !.print = @ + 1]
       ELSE /\ pc' = "done" /\ panic' = panic /\ out' = print(ErrorData)
            /\ calls' = [calls EXCEPT !.print = @ + 1, !.writeln = @ + 1]
    /\ UNCHANGED <<build, summary, line, spos, epos, message, lineno, path, errnum,
                   last, tries, ruler, collected, output, printed>>

Next ==
    \/ Summary \/ Line \/ Spos \/ Epos \/ Message \/ Lineno \/ Path \/ Errnum
    \/ Render

Spec == Init /\ [][Next]_vars

\* The operator at work: whenever a field is waiting, a line that makes it
\* return (an empty line on a field with a default, or a line the validator
\* accepts) comes eventually; and main, being a sequential program, goes on
\* to the renderer once the last field has returned.  Renders is the step of
\* Render, told by the place main leaves.
Collect == Summary \/ Line \/ Spos \/ Epos \/ Message \/ Lineno \/ Path \/ Errnum
Submits == Collect /\ last'.returned
Renders == pc = "print" /\ pc' \in {"done", "panicked"}
LiveSpec == Spec /\ WF_pc(Submits \/ Renders)

----------------------------------------------------------------------------
(* Properties                                                              *)

\* The record has been built and handed to ErrorData::print (which then
\* wrote the diagnostic or aborted).
RecordHanded == pc \in {"print", "done"} \/ (pc = "panicked" /\ panic = "print")

\* The last pass of the loop of `field` read an empty line / a line of one
\* blank.
Attempted == last.name # ""
EmptyLine == Attempted /\ last.input = Typed(Empty)
BlankLine == Attempted /\ last.input = Typed(Blank)

\* C1: every record handed to the renderer has start_offset < end_offset
\* (stated for the non-empty lines, where no length arithmetic can wrap and
\* the start offset ranges over [0, length(line)]).
C1_StartBeforeEnd == (RecordHanded /\ line # <<>>) => spos < epos

\* C2: every record handed to the renderer has end_offset <= length(line)
\* (the length as the code measures it, line.len()).
C2_EndWithinLine == RecordHanded => epos <= len(line)

\* C3: an empty line on a field without a default never makes `field`
\* return: it reports "cannot be empty" and goes round the loop.
C3_EmptyRequiredNeverReturns ==
    (EmptyLine /\ ~last.default.some) =>
        /\ ~last.returned
        /\ EmptyError(last.name) \in {last.stderr[i] : i \in 1..Len(last.stderr)}


\* C4: an empty line on a field with a default makes `field` return exactly
\* the default, on whatever pass of the loop it arrives, with no call of the
\* validator and nothing on standard error, also when the default is outside
\* the validator's range.
C4_EmptyYieldsDefault ==
    (EmptyLine /\ last.default.some) =>
        /\ last.returned
        /\ last.value = last.default.value
        /\ ~last.validated
        /\ last.stderr = <<>>

\* C4 happens: after a rejected pass, an empty line on the end position
\* returned a default lying below the validator's minimum.
C4_Witness ==
    /\ EmptyLine /\ last.name = "error end position" /\ last.returned
    /\ last.attempt > 1
    /\ last.default.value < last.fty.min_value

\* C5 as claimed: a line of blanks counts as empty; it yields the default
\* without the validator, or the "cannot be empty" report and a retry.
C5_TrimmedEmptiness ==
    BlankLine =>
        IF last.default.some
        THEN last.returned /\ last.value = last.default.value /\ ~last.validated
        ELSE ~last.returned /\ last.stderr # <<>> /\ last.stderr[1] = EmptyError(last.name)

\* C5 as the code has it: only the newline is removed, so a line of blanks is
\* not empty; it goes to the validator unchanged and the outcome is the
\* validator's (fn string returns the blanks, int_factory's closure rejects
\* them with the "is not a valid" report), default or no default.
C5_BlankIsValidated ==
    BlankLine =>
        /\ last.validated
        /\ last.result = Blank
        /\ IF last.fty.kind = "string"
           THEN last.returned /\ last.value = Blank /\ last.stderr = <<>>
           ELSE ~last.returned /\ last.stderr = <<InvalidError(Blank, last.fty)>>

\* C5 happens: blanks typed on a field that has a default reached the
\* validator.
C5_Witness == BlankLine /\ last.default.some /\ last.validated /\ ~last.returned

\* Positional reading of a decimal text: a numeral is a non-empty run of
\* digits, after at most one '+', that names a number of the word.
IsDecimal(text) == text # <<>> /\ \A i \in 1..Len(text) : IsDigit(text[i])
RECURSIVE Denoted(_)
Denoted(text) ==
    IF text = <<>> THEN 0
    ELSE DigitValue(text[1]) * 10 ^ (Len(text) - 1) + Denoted(Tail(text))
RECURSIVE StripZeros(_)
StripZeros(text) ==
    IF Len(text) > 1 /\ Head(text) = "0" THEN StripZeros(Tail(text)) ELSE text
Unsigned(raw) == IF raw # <<>> /\ Head(raw) = "+" THEN Tail(raw) ELSE raw
FitsWord(text) ==
    LET t == StripZeros(text) IN
    \/ Len(t) <= 9
    \/ /\ Len(t) = 10
       /\ LET front == Denoted(SubSeq(t, 1, 9)) IN
          \/ front < USIZE_MAX \div 10
          \/ front = USIZE_MAX \div 10 /\ DigitValue(t[10]) <= USIZE_MAX % 10
IsNumeral(raw) == IsDecimal(Unsigned(raw)) /\ FitsWord(Unsigned(raw))

\* C6: the closure of int_factory(min, max) accepts a text exactly when it
\* reads as a number v of the word with min <= v <= max and then returns v;
\* it rejects a v below min, a v above max and a text that is no such number
\* with three different reasons.
C6_IntFactory ==
    (Attempted /\ last.validated /\ last.fty.kind = "int") =>
        LET raw == last.result
            min == last.fty.min_value
            max == last.fty.max_value
            v == Denoted(StripZeros(Unsigned(raw)))
        IN
        /\ last.returned <=> (IsNumeral(raw) /\ min <= v /\ v <= max)
        /\ last.returned => last.value = v
        /\ (IsNumeral(raw) /\ v < min) => last.details = "value is too smol"
        /\ (IsNumeral(raw) /\ v >= min /\ v > max) => last.details = "value is too big"
        /\ ~IsNumeral(raw) => last.details = "invalid value"
        /\ ~last.returned =>
              last.details \in {"invalid value", "value is too smol", "value is too big"}

\* C6 happens: a typed number equal to the maximum of a proper range was
\* accepted.
C6_Witness ==
    /\ Attempted /\ last.validated /\ last.fty.kind = "int" /\ last.returned
    /\ last.fty.min_value < last.fty.max_value
    /\ last.value = last.fty.max_value


\* The rows of the text in the sink, cut at the newlines.
RECURSIVE Rows(_)
Rows(text) ==
    IF text = <<>> THEN <<>>
    ELSE LET k == CHOOSE i \in 1..Len(text) :
                      text[i] = NL /\ \A j \in 1..(i - 1) : text[j] # NL
         IN <<SubSeq(text, 1, k - 1)>> \o Rows(SubSeq(text, k + 1, Len(text)))

\* Index of the first token c of a row.
First(row, c) == CHOOSE i \in 1..Len(row) : row[i] = c /\ \A j \in 1..(i - 1) : row[j] # c

\* Width of the gutter of a shown row: up to its bar and the blank after it.
GutterWidth(shown) == First(shown, "|") + 1

HasMultiByte(text) == \E i \in 1..Len(text) : ByteLen(text[i]) > 1

\* The renderer has run on the record, to the end or to an abort.
Rendered == pc = "done" \/ (pc = "panicked" /\ panic = "print")

\* C7: for a record with 0 <= start_offset < end_offset <= length(line), in
\* characters, the caret row holds exactly end_offset - start_offset carets
\* in a row, the first in the column where the source row shows character
\* start_offset of the line.
C7_CaretsUnderSpan ==
    (Rendered /\ 0 <= spos /\ spos < epos /\ epos <= CharCount(line)) =>
        /\ pc = "done"
        /\ LET source == Visible(Rows(out)[4])
               caret == Visible(Rows(out)[5])
               under == SubSeq(caret, 1, Len(caret) - Len(message) - 1)
               carets == {i \in 1..Len(under) : under[i] = "^"}
               column == GutterWidth(source) + spos + 1
           IN /\ Cardinality(carets) = epos - spos
              /\ carets = column..(column + epos - spos - 1)
              /\ GutterWidth(caret) = GutterWidth(source)
              /\ source[column] = line[spos + 1]

\* C8: offsets count characters: for a line with a multi-byte character the
\* accepted start and end offsets are at most the number of characters of
\* the line, and the renderer never aborts on its three slices.
C8_CharacterOffsets ==
    HasMultiByte(line) =>
        /\ pc \in {"epos", "message"} => spos <= CharCount(line)
        /\ RecordHanded => epos <= CharCount(line)
        /\ ~(pc = "panicked" /\ panic = "print")

\* C9: while lines can be read, nothing the operator types aborts the
\* process, in collection or in rendering.
C9_NoAbortOnInput == pc = "panicked" => panic = "no newline at end of input"

\* Number of decimal digits of n, by its size.
NumDigits(n) ==
    IF n >= 10 ^ 9 THEN 10
    ELSE CHOOSE k \in 1..9 : n < 10 ^ k /\ (k > 1 => n >= 10 ^ (k - 1))

\* C10: the identifier in the header is 'E' and then digits that denote
\* error_number, max(4, number of digits of error_number) of them: 69 gives
\* E0069 and 123456 gives E123456.
C10_ErrorIdentifier ==
    pc = "done" =>
        LET shown == Visible(out)
            id == SubSeq(shown, First(shown, "[") + 1, First(shown, "]") - 1)
            digits == Tail(id)
        IN /\ SubSeq(shown, 1, 6) = <<"e", "r", "r", "o", "r", "[">>
           /\ Head(id) = "E"
           /\ IsDecimal(digits)
           /\ Denoted(digits) = errnum
           /\ Len(digits) = IF NumDigits(errnum) > 4 THEN NumDigits(errnum) ELSE 4
           /\ errnum = 69 => id = <<"E", "0", "0", "6", "9">>
           /\ errnum = 123456 => id = <<"E", "1", "2", "3", "4", "5", "6">>

\* C10 happens: a diagnostic was written for error number 123456.
C10_Witness == pc = "done" /\ errnum = 123456


----------------------------------------------------------------------------
(* The worked example                                                      *)

\* The fields of the example other than the end offset are collected.
ExampleCollected ==
    /\ summary = ExampleSummary /\ line = ExampleLine /\ spos = 8
    /\ message = ExampleMessage /\ lineno = 3 /\ path = ExamplePath /\ errnum = 69

\* The last pass of `field` was on the end position of the example's line,
\* with start offset 8.
ExampleEnd ==
    /\ last.name = "error end position" /\ ~last.panicked
    /\ line = ExampleLine /\ spos = 8

\* The highlighted part of a source row: what lies between the opening and
\* the closing pair of escapes.
Highlighted(row) == SubSeq(row, First(row, "ESC[1m") + 2, First(row, "ESC[0m") - 2)

\* What the terminal shows of the rows in the sink.
Shown == [i \in 1..Len(Rows(out)) |-> Visible(Rows(out)[i])]

\* C11 as claimed: the example's end position (16, stored as end_offset 17)
\* is accepted on the example's line, and the diagnostic of that record
\* underlines characters 8 to 16 with 9 carets.
C11_Example ==
    /\ (ExampleEnd /\ last.result = <<"1", "6">>) => (last.returned /\ epos = 17)
    /\ (pc = "done" /\ ExampleCollected) =>
          /\ epos = 17
          /\ Len(Highlighted(Rows(out)[4])) = 9
          /\ Cardinality({i \in 1..Len(Shown[5]) : Shown[5][i] = "^"}) = 9

\* C11 as the code has it: the example's line has 16 characters, so the
\* largest end offset is 16 (typed as 15, or the default); 16 typed is
\* rejected as too big.  With end offset 16 the diagnostic is, row by row,
\* the example's header and location, the source row with characters 8 to 15
\* highlighted and 8 carets under them, followed by the message.
C11_ExampleAmended ==
    /\ (ExampleEnd /\ last.result = <<"1", "6">>) =>
          (~last.returned /\ last.details = "value is too big")
    /\ (ExampleEnd /\ last.result \in {<<"1", "5">>, Empty}) =>
          (last.returned /\ epos = 16)
    /\ (pc = "done" /\ ExampleCollected /\ epos = 16) =>
          /\ Len(Shown) = 6
          /\ Shown[1] =
                <<"e", "r", "r", "o", "r", "[", "E", "0", "0", "6", "9",
                  "]", ":", " ", "t", "y", "p", "e", " ", "m", "i", "s",
                  "m", "a", "t", "c", "h">>
          /\ Shown[2] =
                <<" ", "-", "-", ">", " ", "m", "a", "i", "n", ".", "r",
                  "s", ":", "3", ":", "9">>
          /\ Shown[3] = <<" ", " ", "|", " ">>
          /\ Shown[4] =
                <<"3", " ", "|", " ", "l", "e", "t", " ", "x", " ", "=",
                  " ", "1", " ", "+", " ", "\"", "a", "\"", ";">>
          /\ Shown[5] =
                <<" ", " ", "|", " ", " ", " ", " ", " ", " ", " ", " ",
                  " ", "^", "^", "^", "^", "^", "^", "^", "^", " ", "e",
                  "x", "p", "e", "c", "t", "e", "d", " ", "i", "n", "t",
                  "e", "g", "e", "r", ",", " ", "f", "o", "u", "n", "d",
                  " ", "s", "t", "r", "i", "n", "g">>
          /\ Shown[6] = <<" ", " ", "|", " ">>
          /\ Highlighted(Rows(out)[4]) = SubSeq(ExampleLine, 9, 16)
          /\ Highlighted(Rows(out)[4]) =
                <<"1", " ", "+", " ", "\"", "a", "\"", ";">>

\* C11 happens: the example was collected up to end offset 16 and written.
C11_Witness == pc = "done" /\ ExampleCollected /\ epos = 16


----------------------------------------------------------------------------
(* The course of the session                                               *)

\* The places of main in the order of its text, and the names of its fields.
Order == <<"summary", "line", "spos", "epos", "message", "lineno", "path",
           "errnum", "print", "done">>
FieldNames == <<"summary", "line", "error start position", "error end position",
                "message", "line number", "path", "error number">>
Position(p) == CHOOSE i \in 1..Len(Order) : Order[i] = p

\* C12: the fields return in the fixed order; the ruler is printed exactly
\* once, when the line has returned and before any prompt for the start
\* offset; the renderer is called exactly once and only after all eight
\* fields; a step either stays at the field being collected, moves to the
\* next place, or aborts the process.
C12_ForwardOnly ==
    /\ [](/\ collected = SubSeq(FieldNames, 1, Len(collected))
          /\ pc # "panicked" =>
                Len(collected) = IF Position(pc) > 8 THEN 8 ELSE Position(pc) - 1
          /\ calls.print_line_helper = IF Len(collected) >= 2 THEN 1 ELSE 0
          /\ last.name \in {FieldNames[i] : i \in 3..8} => calls.print_line_helper = 1
          /\ calls.print <= 1
          /\ calls.print = 1 => Len(collected) = 8
          /\ pc = "done" => calls.print = 1
          /\ pc = "print" => calls.print = 0)
    /\ [][/\ \/ pc' = pc /\ collected' = collected
             \/ pc # "done" /\ pc' = Order[Position(pc) + 1]
             \/ pc' = "panicked"
          /\ collected' # collected =>
                collected' = Append(collected, FieldNames[Position(pc)])]_vars

\* C12 happens: a session with a retried field came to its end.
C12_Witness ==
    /\ pc = "done" /\ Len(collected) = 8 /\ last.attempt > 1
    /\ calls.print_line_helper = 1 /\ calls.print = 1


\* The stream behind the sink has received text: through the handle, or,
\* when the sink is standard output, from the prompts of the session.
SinkWritten == out # <<>> \/ (output = "stdout" /\ printed)

\* C13 as claimed: in every execution the sink has received nothing until
\* the diagnostic is written at the end, and nothing at all when the
\* execution stopped early.
C13_SinkUntouched == pc # "done" => ~SinkWritten

\* C13 as the code has it: the handle `output` is written by one writeln!, at
\* the end, with the whole diagnostic: nothing has gone through it until all
\* eight fields have returned and the renderer has finished, it then carries
\* the six rows, and an execution that stopped early (end of input, an abort
\* in collection or in the renderer) has put nothing through it.  A sink
\* that is a file has then received nothing else; a sink that is standard
\* output has received the prompts before.
C13_SinkWrittenOnce ==
    /\ [](/\ pc # "done" => (out = <<>> /\ calls.writeln = 0)
          /\ pc = "done" =>
                /\ calls.writeln = 1
                /\ Len(collected) = 8
                /\ Len(Rows(out)) = 6
                /\ out[Len(out)] = NL
                /\ Visible(Rows(out)[6]) = Visible(Rows(out)[3])
          /\ (output = "file" /\ pc # "done") => ~SinkWritten
          /\ (output = "stdout" /\ Attempted) => SinkWritten)
    /\ [][out' # out => (out = <<>> /\ pc = "print" /\ pc' = "done")]_vars

\* C13 happens: the renderer aborted on the record and the sink is empty.
C13_Witness == pc = "panicked" /\ panic = "print" /\ out = <<>> /\ calls.print = 1

\* The last pass read a non-empty line that the field's validator rejects.
Rejected ==
    /\ Attempted
    /\ has_newline(last.input)
    /\ last.result # <<>>
    /\ ~field_type(last.fty, last.result).ok

\* C14: a non-empty line that the validator rejects is reported on standard
\* error, by the one message that names the raw text and the validator's
\* type and by nothing else; the pass does not return and leaves every
\* collected value as it was; the loop stays on the same field, whose next
\* pass shows the same prompt, the one made from the field's name and
\* default.
C14_RejectedIsReported ==
    /\ [](Rejected =>
            /\ last.validated
            /\ ~last.returned
            /\ ~last.panicked
            /\ last.stderr = <<InvalidError(last.result, last.fty)>>
            /\ last.stderr[1].raw = strip_suffix(last.input)
            /\ pc \in {Order[i] : i \in 1..8}
            /\ last.name = FieldNames[Position(pc)]
            /\ last.prompt = make_prompt(last.name, last.fty, last.default)
            /\ Len(collected) = Position(pc) - 1)
    /\ [][Rejected' =>
            /\ pc' = pc
            /\ collected' = collected
            /\ <<summary, line, spos, epos, message, lineno, path, errnum, out>>' =
               <<summary, line, spos, epos, message, lineno, path, errnum, out>>]_vars
    /\ [][Rejected =>
            /\ last'.name = last.name
            /\ last'.prompt = last.prompt
            /\ last'.attempt = last.attempt + 1]_vars

\* C14 happens: a rejected number was reported, the prompt came again and
\* the next line, not a number either, was rejected and reported in turn.
C14_Witness ==
    /\ Rejected
    /\ last.attempt = 2
    /\ last.fty.kind = "int"
    /\ last.stderr = <<InvalidError(<<"x">>, last.fty)>>

\* The last pass was one of the start / end position field, on a whole line.
StartPass == Attempted /\ last.name = "error start position" /\ has_newline(last.input)
EndPass == Attempted /\ last.name = "error end position" /\ has_newline(last.input)

\* The number a typed text denotes.
Typed_value(raw) == Denoted(StripZeros(Unsigned(raw)))

\* C15: with length(line) the number of characters of the line, a typed
\* start s is accepted exactly when 0 <= s <= length(line) and an empty line
\* gives 0; a typed end e is accepted exactly when
\* start_offset + 1 <= e <= length(line) - 1 and gives end_offset = e + 1,
\* and an empty line gives end_offset = length(line).
C15_OffsetRanges ==
    /\ StartPass =>
          IF last.result = <<>>
          THEN last.returned /\ last.value = 0 /\ spos = 0
          ELSE /\ last.returned <=>
                    /\ IsNumeral(last.result)
                    /\ Typed_value(last.result) <= CharCount(line)
               /\ last.returned => spos = Typed_value(last.result)
    /\ EndPass =>
          IF last.result = <<>>
          THEN last.returned /\ epos = CharCount(line)
          ELSE /\ last.returned <=>
                    /\ IsNumeral(last.result)
                    /\ spos + 1 <= Typed_value(last.result)
                    /\ Typed_value(last.result) <= CharCount(line) - 1
               /\ last.returned => epos = Typed_value(last.result) + 1

\* C15 for the lines where bytes and characters agree and no length
\* arithmetic wraps: the non-empty lines of one-byte characters.
C15_OffsetRangesOneByte == (line # <<>> /\ ~HasMultiByte(line)) => C15_OffsetRanges

\* The i-th block (from 0) of a row cut into blocks of w cells, and a text
\* without its blanks.
Block(row, i, w) == SubSeq(row, i * w + 1, (i + 1) * w)
NoBlanks(text) == SelectSeq(text, LAMBDA c : c # " ")

\* The ruler of the line, of n characters, is laid out in blocks of w cells.
RulerLaidOut(n, w) ==
    /\ n > 0 => w >= Len(to_string(n - 1))
    /\ Len(ruler[1]) = w * n
    /\ Len(ruler[2]) = w * n
    /\ Len(ruler[3]) = w * n
    /\ Len(ruler[4]) = w * n
    /\ \A i \in 0..(n - 1) :
          /\ NoBlanks(Block(ruler[2], i, w)) = to_string(i)
          /\ \E k \in 1..w :
                /\ Block(ruler[3], i, w)[k] = line[i + 1]
                /\ \A j \in (1..w) \ {k} : Block(ruler[3], i, w)[j] = " "

\* C16: once printed, the ruler of a line of n characters has one index
\* block 0 .. n - 1 and one character block per character, all of one width
\* that holds the largest index, block i of the index row over block i of
\* the character row, and two rules of width * n cells; for every line,
\* those with multi-byte characters included.
C16_RulerBlocks ==
    calls.print_line_helper = 1 => \E w \in 1..4 : RulerLaidOut(CharCount(line), w)

\* C16 for the lines of one-byte characters only.
C16_RulerBlocksOneByte == ~HasMultiByte(line) => C16_RulerBlocks

\* C17: in the diagnostic written to the sink the blank gutter (rows 3, 5
\* and 6) is lineno_width + 1 blanks, a bar and a blank, the numbered gutter
\* (row 4) is the digits of line_number, a blank, a bar and a blank, with
\* lineno_width the number of decimal digits of line_number: both are
\* lineno_width + 3 wide and the bar is at column lineno_width + 2 of the
\* four rows.
C17_GuttersAgree ==
    pc = "done" =>
        LET w == NumDigits(lineno)
            shown == [i \in 1..6 |-> Visible(Rows(out)[i])]
        IN
        /\ Len(shown[3]) = w + 3
        /\ Len(shown[6]) = w + 3
        /\ \A i \in 3..6 : Len(shown[i]) >= w + 3
        /\ \A i \in {3, 5, 6} :
              SubSeq(shown[i], 1, w + 3) = repeat(" ", w + 1) \o <<"|", " ">>
        /\ SubSeq(shown[4], 1, w) = to_string(lineno)
        /\ IsDecimal(SubSeq(shown[4], 1, w))
        /\ Denoted(SubSeq(shown[4], 1, w)) = lineno
        /\ SubSeq(shown[4], w + 1, w + 3) = <<" ", "|", " ">>
        /\ \A i \in 3..6 : GutterWidth(shown[i]) = w + 3

\* C17 happens: a diagnostic with a line number of several digits is in the
\* sink.
C17_Witness == pc = "done" /\ lineno >= 10 /\ Len(Rows(out)) = 6

\* The process has ended: the diagnostic is written, or the process aborted.
Terminated == pc \in {"done", "panicked"}

\* C18: with an operator who eventually submits a returning line to the
\* field that waits (an empty line where there is a default, or a line the
\* validator accepts), no field holds the session for ever: the session
\* reaches the renderer and ends there, unless the process aborted before
\* all eight fields had returned (end of input, or the arithmetic on a
\* returned value).  A pass on a rejected line never returns: the loop stays
\* on its field and goes round once more.
C18_Liveness ==
    /\ <>(Rendered \/ (pc = "panicked" /\ panic # "print" /\ Len(collected) < 8))
    /\ [][(Attempted' /\ (pc' # pc \/ tries' # tries) /\ has_newline(last'.input)
           /\ ~(last'.result = <<>> /\ last'.default.some)
           /\ ~field_type(last'.fty, last'.result).ok)
          => (pc' = pc /\ collected' = collected /\ tries' = tries + 1)]_vars

\* C18 happens: the last field took as many rejected lines as the model
\* allows, then an accepted one, and the session came to its end.
C18_Witness ==
    /\ pc = "done"
    /\ last.attempt = MaxTries + 1
    /\ last.returned
    /\ last.validated

\* The validator of the last pass accepts its raw line, and with what value.
Accepts ==
    IF last.fty.kind = "string" THEN TRUE
    ELSE /\ IsNumeral(last.result)
         /\ last.fty.min_value <= Typed_value(last.result)
         /\ Typed_value(last.result) <= last.fty.max_value
Accepted_value ==
    IF last.fty.kind = "string" THEN last.result ELSE Typed_value(last.result)

\* The default of the last pass lies within the range of its validator.
DefaultInRange ==
    last.fty.kind = "int" =>
        /\ last.fty.min_value <= last.default.value
        /\ last.default.value <= last.fty.max_value

\* C19: a pass of `field` on a whole line returns exactly when the line is
\* empty and there is a default, or the validator accepts the raw line; the
\* value is the default in the first case, with no call of the validator
\* even when the default is outside its range, and the validator's result
\* on that raw line in the second.  A call ends with its first such pass:
\* the passes before it in the call were none of the two.
C19_ReturnedValue ==
    /\ [](/\ (Attempted /\ has_newline(last.input)) =>
                /\ last.result = strip_suffix(last.input)
                /\ last.returned <=>
                      \/ last.result = <<>> /\ last.default.some
                      \/ Accepts
                /\ (last.result = <<>> /\ last.default.some) =>
                      /\ last.value = last.default.value
                      /\ ~last.validated
                      /\ last.stderr = <<>>
                /\ (last.returned /\ ~(last.result = <<>> /\ last.default.some)) =>
                      /\ last.validated
                      /\ last.value = Accepted_value
          /\ (Attempted /\ ~has_newline(last.input)) => ~last.returned
          /\ (Attempted /\ last.returned) => tries = 0)
    /\ [][(pc # "print" /\ (pc' # pc \/ tries' # tries)) =>
             IF last'.attempt > 1
             THEN /\ last.name = last'.name
                  /\ last.attempt = last'.attempt - 1
                  /\ ~last.returned
                  /\ has_newline(last.input)
             ELSE Attempted => last.returned]_vars

\* C19 happens: the end position's default, below the minimum of its
\* validator, was returned on an empty line after a rejected pass.
C19_Witness ==
    /\ EndPass
    /\ last.returned
    /\ last.result = <<>>
    /\ last.attempt = 2
    /\ ~DefaultInRange

\* The end position of the session was typed (not left to the default) and
\* accepted; it was left empty and the default was returned.
EndTyped == EndPass /\ last.returned /\ last.result # <<>>
EndDefault == EndPass /\ last.returned /\ last.result = <<>>

\* C20: for a non-empty line, a typed end position gives a span of at least
\* 2 characters; a span of exactly 1 comes only from the default, with
\* start_offset = length(line) - 1; and with start_offset >= length(line) - 1
\* no typed end position is accepted.
C20_SpanOfTypedEnd ==
    (line # <<>> /\ EndPass) =>
        /\ EndTyped => epos - spos >= 2
        /\ (last.returned /\ epos - spos = 1) =>
              (EndDefault /\ spos = CharCount(line) - 1)
        /\ (spos >= CharCount(line) - 1 /\ last.result # <<>>) => ~last.returned

\* C20 for the lines of one-byte characters.
C20_SpanOfTypedEndOneByte == ~HasMultiByte(line) => C20_SpanOfTypedEnd

============================================================================
